---- MODULE Spec2Model ----
(***************************************************************************)
(* Context Packer: reference resolution, scope resolution, context         *)
(* extraction, the analysis orchestrator and the AST/content FileCache.    *)
(*                                                                         *)
(* Source text is a sequence of tokens.  The token "n" is the line break   *)
(* ('\n'); every other token stands for one lexical chunk of a line and    *)
(* occupies one column.                                                    *)
(*   TS/JS family:  "F"  function fN() {      "A"  () => {                 *)
(*                  "K"  class K {            "M"  mN() {                  *)
(*                  "E"  }                    "c"  target();               *)
(*                  "T"  function target() {  "u"  Target();               *)
(*                  "H"  class K extends target() {                        *)
(*                  "d"  obj.target();        "b"  obj[target]();          *)
(*                  "P"  target(              "Q"  );                      *)
(*   .py family:    "s"  one leading blank    "D"  def fN(                 *)
(*                  "C"  class cN             "x"  target()                *)
(*                  "#"  # comment                                         *)
(*                  "T"  def target(          "W"  def  target(            *)
(*                  "Y"  async def target(                                 *)
(* A definition opened by the token at index i has the name fN/mN/cN with  *)
(* N = i, so that two definitions of one file never share a name.          *)
(***************************************************************************)
EXTENDS Integers, Sequences, FiniteSets, TLC

\* ------------------------------------------------------------------ bounds
MaxTokens == 5
MaxPyLines == 3
MaxIndent == 2
MaxCtxLines == 3
MaxFsOps == 1
MaxEntries == 2
MaxRefStatements == 3
MaxRefPyLines == 2
MaxLocs == 2
MaxNames == 2
MaxDiffRefs == 2
MaxPrompts == 2
MaxInputLen == 2
MaxTime == 4
MaxWatchLog == 5
DebounceMs == 2

\* ------------------------------------------------------------ state
VARIABLES
    file,        \* the file under resolution: [ext, content]
    locations,   \* findReferencesInFile's result for it
    location,    \* the CodeLocation last resolved (or Null)
    scope,       \* findEnclosingScope's result for it: ScopeInfo, Null, or Pending
    maxContextLines,  \* the ceiling passed to extractReferenceContext
    refs         \* the FunctionReference extracted at `location`, per depth (or Pending)

VARIABLES
    fs,          \* the file system: path -> [exists, content, mtime]
    fsOps        \* how many times other processes have changed it

VARIABLES
    astCache,      \* the AST cache singleton: its entries in Map insertion order
    contentCache,  \* the content cache singleton, likewise
    options,       \* ContextPacker.options: [depth, maxContextLines]
    pc,            \* where analyze() is: "idle", "find", "extract", "done"
    files,         \* findFilesSync's result
    fileIdx,       \* the file the `for` loop of analyze is at
    allLocations,  \* allLocations of analyze
    locIdx,        \* the location locations.map is at
    references,    \* the FunctionReferences extracted so far
    result,        \* the AnalysisResult returned, Threw, or Pending
    found,         \* history: path -> the locations findReferencesInFile returned
    unparsed,      \* history: the paths whose parse or read failed in this call
    lost,          \* history: a file was deleted after its references were found
    probe          \* history: the last read-dependent value produced, and the value
                   \* the same call produces with cold caches

VARIABLES
    cache,       \* a FileCache<string> instance: its entries in Map insertion order
    recency,     \* history: its cached paths, least recently accessed first
    evicted      \* history: the path set() last evicted from the full cache, and
                 \* the least recently accessed path at that moment

VARIABLES
    search,      \* findReferencesInFile called on `file`: [functionName, locations]
    batch,       \* extractMultipleContexts called: [locs, depth, out] (out may be Threw)
    multi,       \* MultiFunctionAnalyzer.analyze: [names, idx, results, totalReferences, ...]
    cli          \* the command-line run: [noCache, served]

VARIABLES
    config,      \* loadConfig called on a directory: [dir, loaded]
    watch,       \* a Watcher instance, its timers, the clock and the log of what happened
    inflight,    \* getFileContent between its read and its cache.set: [path, data] or Null
    tui,         \* the interactive session: [open, prompts, inputs, ...]
    diff         \* diffAnalysis called: [previous, current, out]

scopeVars == <<file, locations, location, scope>>
extractVars == <<maxContextLines, refs>>
envVars == <<fs, fsOps>>
packVars == <<astCache, contentCache, options, pc, files, fileIdx, allLocations, locIdx,
              references, result, found, unparsed, lost, probe>>
cacheVars == <<cache, recency, evicted>>
auxVars == <<search, batch, multi, cli>>
ioVars == <<config, watch, inflight, tui, diff>>
vars == <<scopeVars, extractVars, envVars, packVars, cacheVars, auxVars, ioVars>>

Null == [null |-> TRUE]
Pending == [pending |-> TRUE]
\* An absent identifier (id: null, no key, enclosingScope: undefined)
NoName == ""

Min(a, b) == IF a < b THEN a ELSE b
Max(a, b) == IF a > b THEN a ELSE b

\* The name the analysis is run for.
TargetName == "target"
\* The same name spelled with another case
OtherName == "Target"

\* maxContextLines: number = 100
DefaultMaxContextLines == 100
DefaultMaxEntries == 200

\* ------------------------------------------------------------ text
\* content.split('\n')
RECURSIVE SplitLines(_)
SplitLines(text) ==
    IF \A i \in 1..Len(text) : text[i] # "n"
    THEN <<text>>
    ELSE LET k == CHOOSE i \in 1..Len(text) :
                      text[i] = "n" /\ \A j \in 1..(i - 1) : text[j] # "n"
         IN <<SubSeq(text, 1, k - 1)>> \o SplitLines(SubSeq(text, k + 1, Len(text)))

\* lines.join('\n')
RECURSIVE JoinLines(_)
JoinLines(lines) ==
    IF Len(lines) = 0 THEN <<>>
    ELSE IF Len(lines) = 1 THEN lines[1]
    ELSE lines[1] \o <<"n">> \o JoinLines(Tail(lines))

\* lines.slice(begin, end) of JavaScript, for 0 <= begin
Slice(lines, begin, end) ==
    SubSeq(lines, begin + 1, Min(end, Len(lines)))

\* 1-indexed line and 0-indexed column of the token at index i
LineOf(text, i) == 1 + Cardinality({j \in 1..(i - 1) : text[j] = "n"})
ColOf(text, i) ==
    LET brk == {j \in 1..(i - 1) : text[j] = "n"}
        last == IF brk = {} THEN 0 ELSE CHOOSE j \in brk : \A k \in brk : k <= j
    IN i - 1 - last

\* ------------------------------------------------------------ TS/JS parser
FunctionLike == {"FunctionDeclaration", "FunctionExpression",
                 "ArrowFunctionExpression", "MethodDefinition"}

Node(type, text, open, close, id, key, callee, children) ==
    [type |-> type,
     loc |-> [start |-> [line |-> LineOf(text, open), column |-> ColOf(text, open)],
              end |-> [line |-> LineOf(text, close), column |-> ColOf(text, close) + 1]],
     id |-> id, key |-> key, callee |-> callee, children |-> children]

IdName(prefix, i) == prefix \o ToString(i)

ParseError == [ok |-> FALSE, nodes |-> <<>>, next |-> 0]

\* The callee of a call expression
Identifier(name) == [type |-> "Identifier", name |-> name]
MemberExpression(computed, name) ==
    [type |-> "MemberExpression", computed |-> computed, property |-> Identifier(name)]
CallTokens == {"c", "u", "d", "b"}
CalleeOf(token) ==
    CASE token = "c" -> Identifier(TargetName)
      [] token = "u" -> Identifier(OtherName)
      [] token = "d" -> MemberExpression(FALSE, TargetName)
      [] token = "b" -> MemberExpression(TRUE, TargetName)

\* The statements from token i up to the closing brace of the enclosing body (or
\* the end of the text).  ctx is "body" (statements) or "class" (class members).
RECURSIVE ParseItems(_, _, _)
ParseItems(text, i, ctx) ==
    IF i > Len(text) \/ text[i] \in {"E", "Q"}
    THEN [ok |-> TRUE, nodes |-> <<>>, next |-> i]
    ELSE IF text[i] = "n"
    THEN ParseItems(text, i + 1, ctx)
    ELSE IF text[i] \in CallTokens
    THEN IF ctx = "class" THEN ParseError
         ELSE LET rest == ParseItems(text, i + 1, ctx)
              IN IF ~rest.ok THEN ParseError
                 ELSE [ok |-> TRUE, next |-> rest.next,
                       nodes |-> <<Node("CallExpression", text, i, i, NoName, NoName,
                                        CalleeOf(text[i]), <<>>)>> \o rest.nodes]
    ELSE IF text[i] = "P"
    THEN IF ctx = "class" THEN ParseError
         ELSE LET args == ParseItems(text, i + 1, "args")
              IN IF ~args.ok \/ args.next > Len(text) THEN ParseError
                 ELSE IF text[args.next] # "Q" THEN ParseError
                 ELSE LET rest == ParseItems(text, args.next + 1, ctx)
                      IN IF ~rest.ok THEN ParseError
                         ELSE [ok |-> TRUE, next |-> rest.next,
                               nodes |-> <<Node("CallExpression", text, i, args.next,
                                                NoName, NoName, Identifier(TargetName),
                                                args.nodes)>> \o rest.nodes]
    ELSE IF text[i] \in {"F", "T", "A", "K", "H", "M"}
    THEN IF (text[i] = "M") # (ctx = "class") \/ ctx = "args" THEN ParseError
         ELSE LET body == ParseItems(text, i + 1,
                                     IF text[i] \in {"K", "H"} THEN "class" ELSE "body")
              IN IF ~body.ok \/ body.next > Len(text) THEN ParseError
                 ELSE IF text[body.next] # "E" THEN ParseError
                 ELSE LET close == body.next
                          rest == ParseItems(text, close + 1, ctx)
                          node ==
                            CASE text[i] = "F" ->
                                   Node("FunctionDeclaration", text, i, close,
                                        IdName("f", i), NoName, NoName, body.nodes)
                              [] text[i] = "T" ->
                                   Node("FunctionDeclaration", text, i, close,
                                        TargetName, NoName, NoName, body.nodes)
                              [] text[i] = "H" ->
                                   \* keys in creation order: id, body, superClass
                                   Node("ClassDeclaration", text, i, close,
                                        IdName("c", i), NoName, NoName,
                                        body.nodes
                                        \o <<Node("CallExpression", text, i, i, NoName,
                                                  NoName, Identifier(TargetName), <<>>)>>)
                              [] text[i] = "A" ->
                                   Node("ArrowFunctionExpression", text, i, close,
                                        NoName, NoName, NoName, body.nodes)
                              [] text[i] = "K" ->
                                   Node("ClassDeclaration", text, i, close,
                                        IdName("c", i), NoName, NoName, body.nodes)
                              [] text[i] = "M" ->
                                   \* key: Identifier, value: FunctionExpression (id: null)
                                   Node("MethodDefinition", text, i, close,
                                        NoName, IdName("m", i), NoName,
                                        <<Node("FunctionExpression", text, i, close,
                                               NoName, NoName, NoName, body.nodes)>>)
                      IN IF ~rest.ok THEN ParseError
                         ELSE [ok |-> TRUE, next |-> rest.next,
                               nodes |-> <<node>> \o rest.nodes]
    ELSE ParseError

\* parse(content, {loc: true, ...}): the Program node, or ParseFailure when it throws
ParseFailure == [failed |-> TRUE]

parse(text) ==
    LET r == ParseItems(text, 1, "body")
    IN IF r.ok /\ r.next = Len(text) + 1
       THEN [type |-> "Program",
             loc |-> [start |-> [line |-> 1, column |-> 0],
                      end |-> [line |-> LineOf(text, Len(text) + 1),
                               column |-> ColOf(text, Len(text) + 1)]],
             id |-> NoName, key |-> NoName, callee |-> NoName, children |-> r.nodes]
       ELSE ParseFailure

\* ------------------------------------------------------------ reference finder (TS/JS)
\* walk of findReferencesInFile: the matching call expressions of the subtree, in
\* the order the walk pushes them
RECURSIVE WalkReferences(_, _, _)
WalkReferencesOfChildren(children, filePath, functionName) ==
    LET RECURSIVE Each(_)
        Each(k) == IF k > Len(children) THEN <<>>
                   ELSE WalkReferences(children[k], filePath, functionName) \o Each(k + 1)
    IN Each(1)
\* calleeName of walk; NoName stands for null
calleeNameMutAnyMember(callee) ==
    IF callee.type = "Identifier" THEN callee.name ELSE callee.property.name
calleeName(callee) ==
    IF callee.type = "Identifier" THEN callee.name
    ELSE IF callee.type = "MemberExpression"
            /\ ~callee.computed /\ callee.property.type = "Identifier"
    THEN callee.property.name
    ELSE NoName
WalkReferences(node, filePath, functionName) ==
    (IF node.type = "CallExpression" /\ calleeName(node.callee) = functionName
     THEN <<[filePath |-> filePath, line |-> node.loc.start.line,
             column |-> node.loc.start.column]>>
     ELSE <<>>)
    \o WalkReferencesOfChildren(node.children, filePath, functionName)

\* ------------------------------------------------------------ scope resolver (TS/JS)
ScopeName(node) ==
    IF node.id # NoName THEN node.id
    ELSE IF node.key # NoName THEN node.key
    ELSE "anonymous"

\* Whether walk treats the node as containing the location
NodeContains(node, loc) ==
    node.loc.start.line <= loc.line /\ node.loc.end.line >= loc.line

\* walk of findEnclosingScope: the value of `enclosing` after walking the subtree
RECURSIVE WalkScope(_, _, _)
WalkScopeOfChildren(children, loc, enclosing) ==
    LET RECURSIVE Each(_, _)
        Each(k, e) == IF k > Len(children) THEN e
                      ELSE Each(k + 1, WalkScope(children[k], loc, e))
    IN Each(1, enclosing)
WalkScope(node, loc, enclosing) ==
    IF NodeContains(node, loc)
    THEN WalkScopeOfChildren(
             node.children, loc,
             IF node.type \in FunctionLike
             THEN [name |-> ScopeName(node),
                   startLine |-> node.loc.start.line,
                   endLine |-> node.loc.end.line]
             ELSE enclosing)
    ELSE enclosing

\* ------------------------------------------------------------ .py family
Indent(line) ==
    IF \A i \in 1..Len(line) : line[i] = "s" THEN Len(line)
    ELSE (CHOOSE i \in 1..Len(line) :
              line[i] # "s" /\ \A j \in 1..(i - 1) : line[j] = "s") - 1
\* line.trim() === ''
IsBlank(line) == \A i \in 1..Len(line) : line[i] = "s"
\* line.trim().startsWith('#')
IsComment(line) == ~IsBlank(line) /\ line[Indent(line) + 1] = "#"
\* FUNCTION_DEF_RE = /^(\s*)def\s+(\w+)\s*\(/ and CLASS_DEF_RE = /^(\s*)class\s+(\w+)/
IsDef(line) == ~IsBlank(line) /\ line[Indent(line) + 1] \in {"D", "T", "W"}
IsClass(line) == ~IsBlank(line) /\ line[Indent(line) + 1] = "C"

\* endLine after the loop of findBlockEndLine has examined lines j.. (1-indexed)
RECURSIVE BlockEndFrom(_, _, _, _)
BlockEndFrom(lines, j, blockIndent, endLine) ==
    IF j > Len(lines) THEN endLine
    ELSE IF IsBlank(lines[j]) \/ IsComment(lines[j])
    THEN BlockEndFrom(lines, j + 1, blockIndent, endLine)
    ELSE IF Indent(lines[j]) <= blockIndent THEN endLine
    ELSE BlockEndFrom(lines, j + 1, blockIndent, j)

\* startLine is the header's 1-indexed line
findBlockEndLine(lines, startLine, blockIndent) ==
    BlockEndFrom(lines, startLine + 1, blockIndent, startLine)

\* match[2] of FUNCTION_DEF_RE
PyDefName(line, ln) ==
    IF line[Indent(line) + 1] \in {"T", "W"} THEN TargetName ELSE IdName("f", ln)

PyFunction(lines, ln) ==
    [name |-> PyDefName(lines[ln], ln), startLine |-> ln,
     endLine |-> findBlockEndLine(lines, ln, Indent(lines[ln])),
     indentLevel |-> Indent(lines[ln])]

\* the def lines of the class body deeper than the class header
RECURSIVE extractMethodsFrom(_, _, _, _)
extractMethodsFrom(lines, ln, classEndLine, classIndent) ==
    IF ln > classEndLine THEN <<>>
    ELSE (IF IsDef(lines[ln]) /\ Indent(lines[ln]) > classIndent
          THEN <<PyFunction(lines, ln)>> ELSE <<>>)
         \o extractMethodsFrom(lines, ln + 1, classEndLine, classIndent)
extractMethods(lines, classBodyStart, classEndLine, classIndent) ==
    extractMethodsFrom(lines, classBodyStart + 1, classEndLine, classIndent)

PyClass(lines, ln) ==
    LET endLine == findBlockEndLine(lines, ln, Indent(lines[ln]))
    IN [name |-> IdName("c", ln), startLine |-> ln, endLine |-> endLine,
        methods |-> extractMethods(lines, ln, endLine, Indent(lines[ln]))]

RECURSIVE PyCollect(_, _, _)
PyCollect(lines, ln, what) ==
    IF ln > Len(lines) THEN <<>>
    ELSE (IF what = "class" /\ IsClass(lines[ln]) THEN <<PyClass(lines, ln)>>
          ELSE IF what = "def" /\ ~IsClass(lines[ln]) /\ IsDef(lines[ln])
                  /\ Indent(lines[ln]) = 0
          THEN <<PyFunction(lines, ln)>>
          ELSE <<>>)
         \o PyCollect(lines, ln + 1, what)

EmptyPythonAST == [functions |-> <<>>, classes |-> <<>>]

\* parsePythonFile on the text getPythonFileContent returned
parsePythonText(text) ==
    LET lines == SplitLines(text)
    IN [functions |-> PyCollect(lines, 1, "def"),
        classes |-> PyCollect(lines, 1, "class")]

\* The candidates in the order the loops of findPythonEnclosingScopeWithLines visit
\* them: the functions, then each class followed by its methods
RECURSIVE ClassCandidates(_)
ClassCandidates(classes) ==
    IF classes = <<>> THEN <<>>
    ELSE <<Head(classes)>> \o Head(classes).methods \o ClassCandidates(Tail(classes))

PyCandidateFitsMutStartOnly(c, line) == c.startLine <= line
PyCandidateFits(c, line) == c.startLine <= line /\ c.endLine >= line

RECURSIVE PyBest(_, _, _, _)
PyBest(cands, line, best, bestSize) ==
    IF cands = <<>> THEN best
    ELSE LET c == Head(cands)
             size == c.endLine - c.startLine
         IN IF PyCandidateFits(c, line) /\ (bestSize < 0 \/ size < bestSize)
            THEN PyBest(Tail(cands), line,
                        [name |-> c.name, startLine |-> c.startLine,
                         endLine |-> c.endLine], size)
            ELSE PyBest(Tail(cands), line, best, bestSize)

\* bestSize = Infinity is written -1
findPythonEnclosingScopeWithLines(pythonAst, line) ==
    PyBest(pythonAst.functions \o ClassCandidates(pythonAst.classes), line, Null, -1)

\* ------------------------------------------------------------ files
TsPath == "a.ts"
PyPath == "b.py"
\* A file whose extension is not in SUPPORTED_EXTENSIONS
TxtPath == "c.txt"
SUPPORTED_EXTENSIONS == {TsPath, PyPath}
\* filePath.endsWith('.py')
IsPy(filePath) == filePath = PyPath

\* What one call sees of a file: `ast` is parseFile's result (a Program or Null),
\* `py` what getPythonFileContent reads and `text` what getFileContent returns
\* (each [ok, text]; ok = FALSE is the thrown Error).
Unreadable == [ok |-> FALSE, text |-> <<>>]
Readable(text) == [ok |-> TRUE, text |-> text]

\* parseFile's try block on a text that was read: a parse error is caught
parseText(text) ==
    IF parse(text) = ParseFailure THEN Null ELSE parse(text)

\* The view of a file nobody modifies, read with cold caches
ViewOf(content) ==
    [ast |-> parseText(content), py |-> Readable(content), text |-> Readable(content)]

\* parsePythonFile: an unreadable file gives the empty AST
parsePythonFile(py) ==
    IF py.ok THEN parsePythonText(py.text) ELSE EmptyPythonAST

\* findPythonReferences: every `target(` of every line that is not the def of target
\* The chunks in which callPattern = /\btarget\s*\(/ finds a match
PyTargetParen == {"x", "T", "W", "Y"}
RECURSIVE PyCallsOfLine(_, _, _, _)
PyCallsOfLine(line, k, ln, filePath) ==
    IF k > Len(line) THEN <<>>
    ELSE (IF line[k] \in PyTargetParen
          THEN <<[filePath |-> filePath, line |-> ln, column |-> k - 1]>>
          ELSE <<>>)
         \o PyCallsOfLine(line, k + 1, ln, filePath)

\* line.includes(`def ${functionName}`) on a def header: the header's name is fN
DefIncludes(line, ln, functionName) ==
    \E k \in 1..Len(line) :
        \/ line[k] \in {"T", "Y"} /\ functionName = TargetName
        \/ line[k] = "D" /\ functionName = IdName("f", ln)

RECURSIVE PyReferencesFrom(_, _, _, _)
PyReferencesFrom(lines, ln, filePath, functionName) ==
    IF ln > Len(lines) THEN <<>>
    ELSE (IF IsDef(lines[ln]) /\ DefIncludes(lines[ln], ln, functionName) THEN <<>>
          ELSE IF functionName = TargetName
          THEN PyCallsOfLine(lines[ln], 1, ln, filePath)
          ELSE <<>>)
         \o PyReferencesFrom(lines, ln + 1, filePath, functionName)

findPythonReferences(filePath, py, functionName) ==
    IF ~py.ok THEN <<>>
    ELSE PyReferencesFrom(SplitLines(py.text), 1, filePath, functionName)

findReferencesInFile(filePath, view, functionName) ==
    IF IsPy(filePath) THEN findPythonReferences(filePath, view.py, functionName)
    ELSE IF view.ast = Null THEN <<>>
    ELSE WalkReferences(view.ast, filePath, functionName)

findEnclosingScope(filePath, loc, view) ==
    IF IsPy(filePath)
    THEN findPythonEnclosingScopeWithLines(parsePythonFile(view.py), loc.line)
    ELSE IF view.ast = Null THEN Null
    ELSE WalkScope(view.ast, loc, Null)

\* ------------------------------------------------------------ context extractor
Depths == {"snippet", "logic", "module"}
Threw == [threw |-> TRUE]

\* getLine: lines[lineNumber - 1] || ''
getLine(text, lineNumber) ==
    LET lines == SplitLines(text)
    IN IF lineNumber \in 1..Len(lines) THEN lines[lineNumber] ELSE <<>>

\* getLines: lines.slice(startLine - 1, endLine).join('\n')
getLines(text, startLine, endLine) ==
    JoinLines(Slice(SplitLines(text), startLine - 1, endLine))

TruncationHeader(startLine, endLine) ==
    "// ... (function truncated, showing lines " \o ToString(startLine)
        \o "-" \o ToString(endLine) \o ")"
TruncationFooter == "// ..."

\* The window shown of an oversized scope
TruncationWindowMutFromTop(sc, loc, maxLines) ==
    [startLine |-> sc.startLine, endLine |-> Min(sc.endLine, sc.startLine + maxLines - 1)]
TruncationWindow(sc, loc, maxLines) ==
    LET contextRadius == maxLines \div 2
    IN [startLine |-> Max(sc.startLine, loc.line - contextRadius),
        endLine |-> Min(sc.endLine, loc.line + contextRadius)]

\* The context of the LOGIC case, given the text getFileContent returned
LogicContext(text, sc, loc, maxLines) ==
    IF sc.endLine - sc.startLine + 1 > maxLines
    THEN LET w == TruncationWindow(sc, loc, maxLines)
         IN <<TruncationHeader(w.startLine, w.endLine), "n">>
            \o getLines(text, w.startLine, w.endLine)
            \o <<"n", TruncationFooter>>
    ELSE getLines(text, sc.startLine, sc.endLine)

\* extractReferenceContext; Threw when getFileContent throws
extractReferenceContext(loc, depth, maxLines, view) ==
    LET sc == IF depth = "logic" THEN findEnclosingScope(loc.filePath, loc, view) ELSE Null
    IN IF ~view.text.ok THEN Threw
       ELSE [location |-> loc,
             context |-> CASE depth = "snippet" -> getLine(view.text.text, loc.line)
                           [] depth = "logic" ->
                                IF sc # Null
                                THEN LogicContext(view.text.text, sc, loc, maxLines)
                                ELSE getLine(view.text.text, loc.line)
                           [] depth = "module" -> view.text.text,
             depth |-> depth,
             enclosingScope |-> IF sc # Null THEN sc.name ELSE NoName]

\* extractMultipleContexts over locations of one file, seen through `view`:
\* [threw, references]: locations.map(...), or threw when an element throws
extractMultipleContextsMutDropLast(locs, depth, maxLines, view) ==
    [threw |-> FALSE,
     references |-> [i \in 1..(Len(locs) - 1) |->
                        extractReferenceContext(locs[i], depth, maxLines, view)]]
extractMultipleContexts(locs, depth, maxLines, view) ==
    IF \E i \in 1..Len(locs) :
           extractReferenceContext(locs[i], depth, maxLines, view) = Threw
    THEN [threw |-> TRUE, references |-> <<>>]
    ELSE [threw |-> FALSE,
          references |-> [i \in 1..Len(locs) |->
                             extractReferenceContext(locs[i], depth, maxLines, view)]]

\* ------------------------------------------------------------ inputs
TsAlphabet == {"F", "A", "K", "M", "E", "c", "n"}
TextsUpTo(alphabet, n) == UNION {[1..k -> alphabet] : k \in 0..n}
TsTexts(n) == TextsUpTo(TsAlphabet, n)

\* A .py line: an indentation, then a def header, a class header, a call of the
\* target, a comment, or nothing
PyLines ==
    {[i \in 1..k |-> "s"] \o tail :
        k \in 0..MaxIndent, tail \in {<<"D">>, <<"C">>, <<"x">>, <<"#">>, <<>>}}
PyTexts(n) == {JoinLines(ls) : ls \in UNION {[1..k -> PyLines] : k \in 1..n}}

Files(tokens, lines) ==
    {[path |-> TsPath, content |-> t] : t \in TsTexts(tokens)}
    \cup {[path |-> PyPath, content |-> t] : t \in PyTexts(lines)}

LineCount(text) == Len(SplitLines(text))

\* ------------------------------------------------------------ idle components
\* The value of each part of the state while a specification does not use it
ScopeIdle == locations = <<>> /\ location = Null /\ scope = Pending
ExtractIdle == maxContextLines = DefaultMaxContextLines /\ refs = Pending
EnvIdle == fs = <<>> /\ fsOps = 0
PackIdle ==
    /\ astCache = <<>> /\ contentCache = <<>> /\ pc = "idle"
    /\ options = [depth |-> "logic", maxContextLines |-> DefaultMaxContextLines]
    /\ files = <<>> /\ fileIdx = 0 /\ allLocations = <<>> /\ locIdx = 0
    /\ references = <<>> /\ result = Pending
    /\ found = <<>> /\ unparsed = {} /\ lost = FALSE /\ probe = Pending
CacheIdle == cache = <<>> /\ recency = <<>> /\ evicted = Null
SearchIdle == search = Pending
BatchIdle == batch = Pending
MultiIdle == multi = Pending
CliIdle == cli = Pending
AuxIdle == SearchIdle /\ BatchIdle /\ MultiIdle /\ CliIdle
ConfigIdle == config = Pending
WatchIdle == watch = Pending
InflightIdle == inflight = Null
TuiIdle == tui = Pending
DiffIdle == diff = Pending
IoIdle == ConfigIdle /\ WatchIdle /\ InflightIdle /\ TuiIdle /\ DiffIdle

\* ------------------------------------------------------------ scope resolution
InitScope ==
    /\ file \in Files(MaxTokens, MaxPyLines)
    /\ ScopeIdle /\ ExtractIdle /\ EnvIdle /\ PackIdle /\ CacheIdle /\ AuxIdle /\ IoIdle

\* findReferencesInFile(file, target), then findEnclosingScope at one of the call
\* sites it found
ResolveCallSite ==
    /\ locations' = findReferencesInFile(file.path, ViewOf(file.content), TargetName)
    /\ \E i \in 1..Len(locations') :
         /\ location' = locations'[i]
         /\ scope' = findEnclosingScope(file.path, locations'[i], ViewOf(file.content))
    /\ UNCHANGED <<ioVars, auxVars, file, extractVars, envVars, packVars, cacheVars>>

\* findEnclosingScope at any line, inside the file or past its end
ResolveLine ==
    /\ \E ln \in 1..(LineCount(file.content) + 1) :
         /\ location' = [filePath |-> file.path, line |-> ln, column |-> 0]
         /\ scope' = findEnclosingScope(file.path, location', ViewOf(file.content))
    /\ UNCHANGED <<ioVars, auxVars, file, locations, extractVars, envVars, packVars, cacheVars>>

NextScope == ResolveCallSite \/ ResolveLine

SpecScope == InitScope /\ [][NextScope]_vars

\* ------------------------------------------------------------ scope claims
IsCallSite == \E i \in 1..Len(locations) : locations[i] = location
Resolved == scope # Pending /\ location # Null

\* Position order of (line, column): a node encloses a position when the position
\* lies in [loc.start, loc.end)
PosLeq(a, b) == a.line < b.line \/ (a.line = b.line /\ a.column <= b.column)
Encloses(node, pos) ==
    PosLeq(node.loc.start, pos) /\ ~PosLeq(node.loc.end, pos)

\* The innermost function-like node of the tree that encloses the position, with
\* the key of the method whose value it is (NoName when it is no method's value)
RECURSIVE Innermost(_, _, _, _)
InnermostOfChildren(node, pos, best) ==
    LET RECURSIVE Each(_, _)
        Each(k, b) ==
            IF k > Len(node.children) THEN b
            ELSE Each(k + 1, Innermost(node.children[k], pos, b,
                                       IF node.type = "MethodDefinition"
                                       THEN node.key ELSE NoName))
    IN Each(1, best)
Innermost(node, pos, best, methodKey) ==
    IF Encloses(node, pos)
    THEN InnermostOfChildren(
             node, pos,
             IF node.type \in FunctionLike
             THEN [node |-> [type |-> node.type, loc |-> node.loc, id |-> node.id,
                             key |-> node.key],
                   methodKey |-> methodKey]
             ELSE best)
    ELSE best

InnermostAt(text, pos) == Innermost(parse(text), pos, Null, NoName)

\* C3: at a call site of a TS/JS file, findEnclosingScope returns the innermost
\* function-like node that encloses the call site (by line and column), also when
\* several function-like nodes share the call site's line.
C3_InnermostEnclosingNode ==
    (Resolved /\ IsCallSite /\ ~IsPy(file.path)) =>
        LET inner == InnermostAt(file.content, location)
        IN IF inner = Null THEN scope = Null
           ELSE /\ scope # Null
                /\ scope.name = ScopeName(inner.node)
                /\ scope.startLine = inner.node.loc.start.line
                /\ scope.endLine = inner.node.loc.end.line

\* C4: a call site inside the body of class method m is reported with scope name m
\* (the method's property-key identifier), not "anonymous".
C4_MethodScopeName ==
    (Resolved /\ IsCallSite /\ ~IsPy(file.path)) =>
        LET inner == InnermostAt(file.content, location)
        IN (inner # Null /\ inner.methodKey # NoName) =>
               (scope # Null /\ scope.name = inner.methodKey)

\* C5: every non-null ScopeInfo returned for location L, in both families, has
\* startLine <= endLine and startLine <= L.line <= endLine.
C5_ScopeContainsLine ==
    (Resolved /\ scope # Null) =>
        /\ scope.startLine <= scope.endLine
        /\ scope.startLine <= location.line
        /\ location.line <= scope.endLine

\* A method of a .py class resolved from a line of its body
C5_Witness ==
    /\ Resolved /\ scope # Null /\ IsPy(file.path)
    /\ scope.startLine > 1 /\ location.line > scope.startLine
    /\ scope.endLine = location.line

\* ------------------------------------------------------------ context extraction
InitExtract ==
    /\ file \in Files(MaxTokens, MaxPyLines)
    /\ ScopeIdle /\ ExtractIdle /\ EnvIdle /\ PackIdle /\ CacheIdle /\ AuxIdle /\ IoIdle

\* extractReferenceContext at one call site of the file, at each of the three
\* depths, with one ceiling
ExtractContext ==
    /\ locations' = findReferencesInFile(file.path, ViewOf(file.content), TargetName)
    /\ \E i \in 1..Len(locations'), m \in 1..MaxCtxLines :
         /\ location' = locations'[i]
         /\ maxContextLines' = m
         /\ refs' = [d \in Depths |->
                        extractReferenceContext(locations'[i], d, m, ViewOf(file.content))]
    /\ UNCHANGED <<ioVars, auxVars, file, scope, envVars, packVars, cacheVars>>

NextExtract == ExtractContext

SpecExtract == InitExtract /\ [][NextExtract]_vars

Extracted == refs # Pending
\* The scope the LOGIC extraction resolved
LogicScope == findEnclosingScope(file.path, location, ViewOf(file.content))
Truncated ==
    /\ Extracted /\ LogicScope # Null
    /\ LogicScope.endLine - LogicScope.startLine + 1 > maxContextLines

\* C1: a LOGIC extraction of a scope with more than maxContextLines lines returns
\* at most maxContextLines + 2 lines.
C1_TruncatedLineBound ==
    Truncated => LineCount(refs["logic"].context) <= maxContextLines + 2

\* C2: lines(MODULE) >= lines(LOGIC) >= lines(SNIPPET) for the same location and
\* ceiling, with equality of LOGIC and SNIPPET when LOGIC falls back to the line.
C2_DepthMonotone ==
    Extracted =>
        /\ LineCount(refs["module"].context) >= LineCount(refs["logic"].context)
        /\ LineCount(refs["logic"].context) >= LineCount(refs["snippet"].context)
        /\ (LogicScope = Null =>
               LineCount(refs["logic"].context) = LineCount(refs["snippet"].context))

\* C6: the window shown of a truncated scope contains the call-site line, whose
\* text is a line of the returned context.
C6_CallSiteShown ==
    Truncated =>
        LET w == TruncationWindow(LogicScope, location, maxContextLines)
            shown == SplitLines(refs["logic"].context)
        IN /\ w.startLine <= location.line
           /\ location.line <= w.endLine
           /\ Len(shown) = w.endLine - w.startLine + 3
           /\ shown[location.line - w.startLine + 2] = getLine(file.content, location.line)
           /\ shown[1] = <<TruncationHeader(w.startLine, w.endLine)>>

\* A truncated scope whose window leaves out lines of the scope on both sides
C6_Witness ==
    /\ Truncated
    /\ LET w == TruncationWindow(LogicScope, location, maxContextLines)
       IN w.startLine > LogicScope.startLine /\ w.endLine < LogicScope.endLine

\* ------------------------------------------------------------ file system
\* Texts other processes write into the files of the analysed directory
FsTsTexts == {<<"c", "n">>, <<"n", "c">>, <<"c", "c">>, <<"F", "c">>, <<"F", "c", "E">>}
FsPyTexts == {<<"x", "n">>, <<"n", "x">>}
TextsFor(path) == IF IsPy(path) THEN FsPyTexts ELSE FsTsTexts

Absent == [exists |-> FALSE, content |-> <<>>, mtime |-> 0]
Present(text, mtime) == [exists |-> TRUE, content |-> text, mtime |-> mtime]

\* fs.statSync: mtimeMs and size, or the thrown error
statSync(disk, path) ==
    IF disk[path].exists
    THEN [ok |-> TRUE, mtime |-> disk[path].mtime, size |-> Len(disk[path].content)]
    ELSE [ok |-> FALSE, mtime |-> 0, size |-> 0]

\* fs.readFileSync(path, 'utf-8')
readFileSync(disk, path) ==
    IF disk[path].exists THEN Readable(disk[path].content) ELSE Unreadable

\* Another process writes a file (creating it if absent).  The modification time
\* moves on unless the write preserves it.
WriteFile ==
    /\ fsOps < MaxFsOps
    /\ \E path \in DOMAIN fs, keepMtime \in BOOLEAN : \E text \in TextsFor(path) :
         /\ keepMtime => fs[path].exists
         /\ text # fs[path].content \/ ~fs[path].exists
         /\ fs' = [fs EXCEPT ![path] =
                      Present(text, IF keepMtime THEN fs[path].mtime ELSE fsOps + 1)]
    /\ fsOps' = fsOps + 1
    /\ lost' = lost
    /\ UNCHANGED <<ioVars, auxVars, scopeVars, extractVars, cacheVars, astCache, contentCache, options, pc,
                   files, fileIdx, allLocations, locIdx, references, result, found,
                   unparsed, probe>>

\* Another process deletes a file
DeleteFile ==
    /\ fsOps < MaxFsOps
    /\ \E path \in DOMAIN fs :
         /\ fs[path].exists
         /\ fs' = [fs EXCEPT ![path] = Absent]
         /\ lost' = (lost \/ (pc \in {"find", "extract"} /\ path \in DOMAIN found))
    /\ fsOps' = fsOps + 1
    /\ UNCHANGED <<ioVars, auxVars, scopeVars, extractVars, cacheVars, astCache, contentCache, options, pc,
                   files, fileIdx, allLocations, locIdx, references, result, found,
                   unparsed, probe>>

\* ------------------------------------------------------------ FileCache
EntryIndex(entries, path) ==
    IF \E i \in 1..Len(entries) : entries[i].path = path
    THEN CHOOSE i \in 1..Len(entries) : entries[i].path = path
    ELSE 0

\* Map.delete
MapDelete(entries, path) ==
    SelectSeq(entries, LAMBDA e : e.path # path)

\* Map.set: a present key keeps its place, a new key goes last
MapSet(entries, entry) ==
    IF EntryIndex(entries, entry.path) = 0 THEN Append(entries, entry)
    ELSE [entries EXCEPT ![EntryIndex(entries, entry.path)] = entry]

\* FileCache.get: [hit, data, cache]
FileCacheGet(entries, disk, path) ==
    LET i == EntryIndex(entries, path)
        stat == statSync(disk, path)
    IN IF i = 0 THEN [hit |-> FALSE, cache |-> entries]
       ELSE IF ~stat.ok \/ stat.mtime # entries[i].mtime \/ stat.size # entries[i].size
       THEN [hit |-> FALSE, cache |-> MapDelete(entries, path)]
       ELSE [hit |-> TRUE, data |-> entries[i].data, cache |-> entries]

EvictOldestMutNever(entries, maxEntries) == entries

\* The entries left by the eviction step of FileCache.set
EvictOldest(entries, maxEntries) ==
    IF Len(entries) >= maxEntries /\ entries # <<>> THEN Tail(entries) ELSE entries

\* FileCache.set: the entries afterwards
FileCacheSet(entries, disk, path, data, maxEntries) ==
    LET kept == EvictOldest(entries, maxEntries)
        stat == statSync(disk, path)
    IN IF ~stat.ok THEN kept
       ELSE MapSet(kept, [path |-> path, data |-> data,
                          mtime |-> stat.mtime, size |-> stat.size])

\* parseFile (with the AST cache): [value, cache], value a Program or Null
parseFileMutReadOutsideTry(entries, disk, path) ==
    LET content == readFileSync(disk, path)
    IN IF ~content.ok THEN [value |-> Threw, cache |-> entries]
       ELSE IF parse(content.text) = ParseFailure THEN [value |-> Null, cache |-> entries]
       ELSE [value |-> parse(content.text), cache |-> entries]
parseFile(entries, disk, path) ==
    LET got == FileCacheGet(entries, disk, path)
        content == readFileSync(disk, path)
    IN IF got.hit THEN [value |-> got.data, cache |-> got.cache]
       ELSE IF ~content.ok \/ parse(content.text) = ParseFailure
       THEN [value |-> Null, cache |-> got.cache]
       ELSE [value |-> parse(content.text),
             cache |-> FileCacheSet(got.cache, disk, path, parse(content.text),
                                    DefaultMaxEntries)]

\* getFileContent (with the content cache): [value, cache], value [ok, text]
getFileContent(entries, disk, path) ==
    LET got == FileCacheGet(entries, disk, path)
        content == readFileSync(disk, path)
    IN IF got.hit /\ got.data # <<>> THEN [value |-> Readable(got.data), cache |-> got.cache]
       ELSE IF ~content.ok THEN [value |-> Unreadable, cache |-> got.cache]
       ELSE [value |-> content,
             cache |-> FileCacheSet(got.cache, disk, path, content.text,
                                    DefaultMaxEntries)]

\* getPythonFileContent reads the file itself
getPythonFileContent(disk, path) == readFileSync(disk, path)

\* What findReferencesInFile / findEnclosingScope / the extractor see of `path`
\* through the two caches, and the caches afterwards.  needAst: the call parses
\* (TS/JS only); needText: the call reads the content.
ReadThrough(asts, contents, disk, path, needAst, needText) ==
    LET pr == IF needAst /\ ~IsPy(path) THEN parseFile(asts, disk, path)
              ELSE [value |-> Null, cache |-> asts]
        cr == IF needText THEN getFileContent(contents, disk, path)
              ELSE [value |-> Unreadable, cache |-> contents]
    IN [view |-> [ast |-> pr.value, py |-> getPythonFileContent(disk, path),
                  text |-> cr.value],
        astCache |-> pr.cache, contentCache |-> cr.cache]

\* ------------------------------------------------------------ ContextPacker.analyze
\* options.include = ['**/*.ts', '**/*.py', '**/*.txt']: one glob per pattern, in
\* this order
DiscoveryOrder == <<TsPath, PyPath, TxtPath>>
DiscoveryRank(path) == CHOOSE k \in 1..Len(DiscoveryOrder) : DiscoveryOrder[k] = path

\* findFilesSync: the files that exist, in glob order
findFilesSync(disk) ==
    SelectSeq(DiscoveryOrder, LAMBDA path : path \in DOMAIN disk /\ disk[path].exists)

InitAnalyze ==
    /\ file = Null
    /\ ScopeIdle /\ ExtractIdle /\ CacheIdle /\ AuxIdle /\ IoIdle
    /\ fs \in {f \in [{TsPath, PyPath} -> {Present(t, 0) : t \in FsTsTexts \cup FsPyTexts}] :
                  \A path \in DOMAIN f : f[path].content \in TextsFor(path)}
    /\ fsOps = 0
    /\ astCache = <<>> /\ contentCache = <<>> /\ pc = "idle"
    /\ options \in {[depth |-> d, maxContextLines |-> DefaultMaxContextLines] : d \in Depths}
    /\ files = <<>> /\ fileIdx = 0 /\ allLocations = <<>> /\ locIdx = 0
    /\ references = <<>> /\ result = Pending
    /\ found = <<>> /\ unparsed = {} /\ lost = FALSE /\ probe = Pending

\* { functionName, references, count: references.length }
AnalysisResultMutCountFiles(functionName, refList) ==
    [functionName |-> functionName, references |-> refList,
     count |-> Cardinality({refList[i].location.filePath : i \in 1..Len(refList)})]
AnalysisResult(functionName, refList) ==
    [functionName |-> functionName, references |-> refList, count |-> Len(refList)]

\* allLocations.push(...locations)
PushAllMutPrepend(all, locs) == locs \o all
PushAll(all, locs) == all \o locs

\* analyze(functionName) is entered: the files are discovered
AnalyzeEnter ==
    /\ pc \in {"idle", "done"}
    /\ files' = findFilesSync(fs)
    /\ fileIdx' = 1 /\ locIdx' = 1
    /\ pc' = IF files' = <<>> THEN "extract" ELSE "find"
    /\ allLocations' = <<>> /\ references' = <<>> /\ result' = Pending
    /\ found' = <<>> /\ unparsed' = {} /\ lost' = FALSE /\ probe' = Pending
    /\ UNCHANGED <<astCache, contentCache, options>>

AnalyzeStart ==
    /\ AnalyzeEnter
    /\ UNCHANGED <<ioVars, auxVars, scopeVars, extractVars, envVars, cacheVars>>

\* One iteration of `for (const file of files)`: findReferencesInFile(file, name)
FindStep ==
    /\ pc = "find"
    /\ LET path == files[fileIdx]
           rt == ReadThrough(astCache, contentCache, fs, path, TRUE, FALSE)
           cold == ReadThrough(<<>>, <<>>, fs, path, TRUE, FALSE)
           locs == findReferencesInFile(path, rt.view, TargetName)
       IN IF rt.view.ast = Threw
          THEN /\ result' = Threw /\ pc' = "done"
               /\ UNCHANGED <<astCache, allLocations, fileIdx, found, unparsed, probe>>
          ELSE /\ astCache' = rt.astCache
               /\ allLocations' = PushAll(allLocations, locs)
               /\ found' = (path :> locs) @@ found
               /\ unparsed' = IF (IsPy(path) /\ ~rt.view.py.ok)
                                 \/ (~IsPy(path) /\ rt.view.ast = Null)
                              THEN unparsed \cup {path} ELSE unparsed
               /\ probe' = [cached |-> locs,
                            fresh |-> findReferencesInFile(path, cold.view, TargetName)]
               /\ fileIdx' = fileIdx + 1
               /\ pc' = IF fileIdx = Len(files) THEN "extract" ELSE "find"
               /\ result' = result
    /\ UNCHANGED <<ioVars, auxVars, scopeVars, extractVars, envVars, cacheVars, contentCache, options,
                   files, locIdx, references, lost>>

\* One element of locations.map(...) in extractMultipleContexts
ExtractStep ==
    /\ pc = "extract"
    /\ locIdx <= Len(allLocations)
    /\ LET loc == allLocations[locIdx]
           logic == options.depth = "logic"
           rt == ReadThrough(astCache, contentCache, fs, loc.filePath, logic, TRUE)
           cold == ReadThrough(<<>>, <<>>, fs, loc.filePath, logic, TRUE)
           ref == extractReferenceContext(loc, options.depth, options.maxContextLines,
                                          rt.view)
       IN /\ astCache' = rt.astCache
          /\ contentCache' = rt.contentCache
          /\ probe' = [cached |-> ref,
                       fresh |-> extractReferenceContext(
                                     loc, options.depth, options.maxContextLines,
                                     cold.view)]
          /\ IF ref = Threw
             THEN result' = Threw /\ pc' = "done" /\ UNCHANGED <<references, locIdx>>
             ELSE /\ references' = Append(references, ref)
                  /\ locIdx' = locIdx + 1
                  /\ UNCHANGED <<result, pc>>
    /\ UNCHANGED <<ioVars, auxVars, scopeVars, extractVars, envVars, cacheVars, options, files, fileIdx,
                   allLocations, found, unparsed, lost>>

\* analyze returns { functionName, references, count }
AnalyzeFinish ==
    /\ pc = "extract"
    /\ locIdx > Len(allLocations)
    /\ result' = AnalysisResult(TargetName, references)
    /\ pc' = "done"
    /\ UNCHANGED <<ioVars, auxVars, scopeVars, extractVars, envVars, cacheVars, astCache, contentCache,
                   options, files, fileIdx, allLocations, locIdx, references, found,
                   unparsed, lost, probe>>

NextAnalyze ==
    AnalyzeStart \/ FindStep \/ ExtractStep \/ AnalyzeFinish \/ WriteFile \/ DeleteFile

SpecAnalyze == InitAnalyze /\ [][NextAnalyze]_vars

\* ------------------------------------------------------------ orchestrator claims
LocationsOf(refList) == [i \in 1..Len(refList) |-> refList[i].location]
RECURSIVE FoundIn(_)
FoundIn(paths) ==
    IF paths = <<>> THEN <<>> ELSE found[Head(paths)] \o FoundIn(Tail(paths))

\* C7: when a discovered file cannot be parsed (a syntax error, or unreadable when
\* its references are looked for), analyze does not throw and returns exactly the
\* references found in the other files; the bad file contributes none.
C7_UnparsableFileSkipped ==
    (pc = "done" /\ ~lost) =>
        /\ result # Threw
        /\ result.count = Len(result.references)
        /\ LocationsOf(result.references) = FoundIn(files)
        /\ \A path \in unparsed : found[path] = <<>>
        /\ \A i \in 1..Len(result.references) :
               result.references[i].location.filePath \notin unparsed

\* One file failed to parse and the other file's references were returned
C7_Witness ==
    /\ pc = "done" /\ ~lost /\ result # Threw
    /\ unparsed # {} /\ result.count > 0

\* C8: a file that becomes unreadable during the call is skipped: analyze does not
\* throw and still returns the references of the other files.
C8_VanishedFileSkipped ==
    pc = "done" =>
        /\ result # Threw
        /\ \A path \in DOMAIN found :
               fs[path].exists =>
                   \A i \in 1..Len(found[path]) :
                       \E j \in 1..Len(result.references) :
                           result.references[j].location = found[path][i]

\* C9: every value produced through the caches equals the one the same call
\* produces when it reads the file system.
C9_CacheTransparent ==
    probe # Pending => probe.cached = probe.fresh

\* ------------------------------------------------------------ FileCache in isolation
\* A cache built as new FileCache(MaxEntries), used for these paths
CachePaths == {"f1", "f2", "f3"}

\* `recency` lists the cached paths, the least recently accessed first
Touch(order, entries, path) ==
    LET rest == SelectSeq(order, LAMBDA q : q # path /\ EntryIndex(entries, q) # 0)
    IN IF EntryIndex(entries, path) # 0 THEN Append(rest, path) ELSE rest

InitCache ==
    /\ file = Null
    /\ ScopeIdle /\ ExtractIdle /\ PackIdle /\ CacheIdle /\ AuxIdle /\ IoIdle
    /\ fs \in [CachePaths -> {Present(t, 0) : t \in {<<"c", "n">>, <<"F", "c", "E">>}}]
    /\ fsOps = 0

\* cache.get(path)
CacheGet ==
    /\ \E path \in CachePaths :
         LET got == FileCacheGet(cache, fs, path)
         IN /\ cache' = got.cache
            /\ recency' = IF got.hit THEN Touch(recency, got.cache, path)
                          ELSE SelectSeq(recency, LAMBDA q : q # path)
    /\ evicted' = Null
    /\ UNCHANGED <<ioVars, auxVars, file, scopeVars, extractVars, envVars, packVars>>

\* cache.set(path, data), data being what the caller read from the file (which may
\* be gone by the time of the call)
CacheSetOf(path) ==
    /\ cache' = FileCacheSet(cache, fs, path, fs[path].content, MaxEntries)
    /\ recency' = Touch(recency, cache', path)
    /\ evicted' = IF EntryIndex(cache, path) = 0 /\ Len(cache) >= MaxEntries
                  THEN [path |-> Head(cache).path, lru |-> Head(recency)]
                  ELSE Null

CacheSet ==
    /\ \E path \in CachePaths : CacheSetOf(path)
    /\ UNCHANGED <<ioVars, auxVars, file, scopeVars, extractVars, envVars, packVars>>

\* cache.invalidate(path)
CacheInvalidate ==
    /\ \E path \in CachePaths :
         /\ cache' = MapDelete(cache, path)
         /\ recency' = SelectSeq(recency, LAMBDA q : q # path)
    /\ evicted' = Null
    /\ UNCHANGED <<ioVars, auxVars, file, scopeVars, extractVars, envVars, packVars>>

\* cache.clear()
CacheClear ==
    /\ cache' = <<>> /\ recency' = <<>> /\ evicted' = Null
    /\ UNCHANGED <<ioVars, auxVars, file, scopeVars, extractVars, envVars, packVars>>

NextCache ==
    CacheGet \/ CacheSet \/ CacheInvalidate \/ CacheClear \/ WriteFile \/ DeleteFile

SpecCache == InitCache /\ [][NextCache]_vars

\* C10: when set() inserts a new path into a full cache, the entry it removes is
\* the one whose last access (a get() hit or a set()) is the oldest.
C10_EvictsLeastRecentlyUsed ==
    evicted # Null => evicted.path = evicted.lru

\* C25: after any set/get/invalidate/clear calls the cache holds at most maxEntries
\* entries (maxEntries >= 1)
C25_SizeWithinMaxEntries ==
    Len(cache) <= MaxEntries

\* a set() has evicted from the full cache, which is full again
C25_Witness ==
    evicted # Null /\ Len(cache) = MaxEntries

RemovedBySet == {q \in CachePaths : EntryIndex(cache, q) # 0 /\ EntryIndex(cache', q) = 0}

\* C26: set() removes a cached entry only when it inserts a path that is not yet
\* cached into a cache holding maxEntries entries: a set() of a cached path, and a
\* set() that stores nothing because the file cannot be stat-ed, remove nothing
C26_SetRemovesOnlyWhenInsertingIntoFull ==
    [][\A path \in CachePaths :
          (CacheSetOf(path) /\ RemovedBySet # {})
              => /\ EntryIndex(cache, path) = 0
                 /\ Len(cache) >= MaxEntries
                 /\ statSync(fs, path).ok]_vars

\* ------------------------------------------------------------ reference search
\* TS/JS texts made of statements: the four kinds of call, a call with arguments,
\* a declaration of the target, a class with a heritage call
SimpleCalls == {<<"c">>, <<"u">>, <<"d">>, <<"b">>}
RefStatements ==
    SimpleCalls \cup {<<"n">>}
    \cup {<<"P">> \o a \o <<"Q">> :
             a \in SimpleCalls \cup {<<>>, <<"c", "c">>, <<"P", "c", "Q">>}}
    \cup {<<"T">> \o a \o <<"E">> : a \in {<<>>, <<"c">>, <<"n", "u">>}}
    \cup {<<"H">> \o a \o <<"E">> : a \in {<<>>, <<"M", "c", "E">>, <<"n", "M", "c", "E">>}}
RECURSIVE Flatten(_)
Flatten(seqs) == IF seqs = <<>> THEN <<>> ELSE Head(seqs) \o Flatten(Tail(seqs))
RefTsTexts(n) ==
    {Flatten(ss) : ss \in UNION {[1..k -> RefStatements] : k \in 0..n}}

\* .py lines: a header of some function, a header of the target in three
\* spellings, one call, two calls, or nothing, at indentation 0 or 1
RefPyLines ==
    {ind \o tail : ind \in {<<>>, <<"s">>},
                   tail \in {<<"D">>, <<"T">>, <<"W">>, <<"Y">>, <<"x">>, <<"x", "x">>,
                             <<>>}}
RefPyTexts(n) ==
    {JoinLines(ls) : ls \in UNION {[1..k -> RefPyLines] : k \in 1..n}}

RefFiles(statements, lines) ==
    {[path |-> TsPath, content |-> t] : t \in RefTsTexts(statements)}
    \cup {[path |-> PyPath, content |-> t] : t \in RefPyTexts(lines)}

InitRefs ==
    /\ file \in RefFiles(MaxRefStatements, MaxRefPyLines)
    /\ ScopeIdle /\ ExtractIdle /\ EnvIdle /\ PackIdle /\ CacheIdle /\ AuxIdle /\ IoIdle

\* findReferencesInFile(file, functionName)
FindReferences ==
    /\ \E functionName \in {TargetName, OtherName} :
         search' = [functionName |-> functionName,
                    locations |-> findReferencesInFile(file.path, ViewOf(file.content),
                                                       functionName)]
    /\ UNCHANGED <<ioVars, scopeVars, extractVars, envVars, packVars, cacheVars, batch, multi, cli>>

NextRefs == FindReferences

SpecRefs == InitRefs /\ [][NextRefs]_vars

\* ------------------------------------------------------------ reference claims
Searched == search # Pending
Tokens(text) == {text[i] : i \in 1..Len(text)}

\* A file that holds a definition of the target and no call of it
DefinitionOnly ==
    IF IsPy(file.path)
    THEN /\ Tokens(file.content) \subseteq {"T", "W", "Y", "s", "n"}
         /\ Tokens(file.content) \cap {"T", "W", "Y"} # {}
    ELSE /\ Tokens(file.content) \subseteq {"T", "E", "n"}
         /\ parse(file.content) # ParseFailure
         /\ "T" \in Tokens(file.content)

\* C11: searching a file that holds only a definition of the target (function
\* target() {...}; def target( in any spacing, plain or async) and no call of it
\* returns the empty list.
C11_DefinitionNotReported ==
    (Searched /\ search.functionName = TargetName /\ DefinitionOnly)
        => search.locations = <<>>

\* The spelling of the name a call token calls, NoName if it is not statically known
SpelledCallee(token) ==
    CASE token \in {"c", "d", "P", "H"} -> TargetName
      [] token = "u" -> OtherName
      [] OTHER -> NoName
CallSites(text, functionName) ==
    {[line |-> LineOf(text, i), column |-> ColOf(text, i)] :
        i \in {j \in 1..Len(text) : SpelledCallee(text[j]) = functionName}}
Reported ==
    {[line |-> search.locations[i].line, column |-> search.locations[i].column] :
        i \in 1..Len(search.locations)}

\* C12: in a TS/JS file that parses, the calls reported are exactly the calls whose
\* callee is an identifier spelled functionName or a non-computed member access
\* whose property is spelled functionName; each is reported once.
C12_ExactCalleeMatch ==
    (Searched /\ ~IsPy(file.path) /\ parse(file.content) # ParseFailure) =>
        /\ Reported = CallSites(file.content, search.functionName)
        /\ Cardinality(Reported) = Len(search.locations)

\* A matching call nested in a matching call, beside a computed member call
C12_Witness ==
    /\ Searched /\ ~IsPy(file.path) /\ search.functionName = TargetName
    /\ \E i \in 1..(Len(file.content) - 1) :
           file.content[i] = "P" /\ file.content[i + 1] = "c"
    /\ "b" \in Tokens(file.content)
    /\ Len(search.locations) = 2

\* C13: the locations are in source order, (line, column) ascending.
C13_SourceOrder ==
    Searched =>
        \A i, j \in 1..Len(search.locations) :
            i < j => \/ search.locations[i].line < search.locations[j].line
                     \/ /\ search.locations[i].line = search.locations[j].line
                        /\ search.locations[i].column <= search.locations[j].column

\* ------------------------------------------------------------ ContextPacker.analyzeFile
\* analyzeFile(functionName, filePath) is entered: the same two phases as analyze,
\* over the one file it was given instead of the discovered files
AnalyzeFileStart ==
    /\ pc \in {"idle", "done"}
    /\ \E filePath \in DOMAIN fs : files' = <<filePath>>
    /\ fileIdx' = 1 /\ locIdx' = 1
    /\ pc' = "find"
    /\ allLocations' = <<>> /\ references' = <<>> /\ result' = Pending
    /\ found' = <<>> /\ unparsed' = {} /\ lost' = FALSE /\ probe' = Pending
    /\ UNCHANGED <<ioVars, auxVars, scopeVars, extractVars, envVars, cacheVars, astCache,
                   contentCache, options>>

NextPacker == NextAnalyze \/ AnalyzeFileStart

SpecPacker == InitAnalyze /\ [][NextPacker]_vars

\* C14: every AnalysisResult returned by analyze or analyzeFile has
\* count = references.length.
C14_CountIsLength ==
    (pc = "done" /\ result # Threw) => result.count = Len(result.references)

\* analyzeFile returned two references of one file
C14_Witness ==
    /\ pc = "done" /\ result # Threw
    /\ fsOps = 0 /\ fs[PyPath].exists /\ files = <<TsPath>>
    /\ result.count = 2

\* ------------------------------------------------------------ extractMultipleContexts
\* Any list of locations of one file: lines inside it and one past its end
BatchLocations(f) ==
    {[filePath |-> f.path, line |-> ln, column |-> col] :
        ln \in 1..(LineCount(f.content) + 1), col \in {0, 1}}
LocLists(f) == UNION {[1..k -> BatchLocations(f)] : k \in 0..MaxLocs}

\* What the calls see of a file that cannot be read
UnreadableView == [ast |-> Null, py |-> Unreadable, text |-> Unreadable]

InitBatch ==
    /\ file \in {[path |-> TsPath, content |-> t] : t \in FsTsTexts}
                \cup {[path |-> PyPath, content |-> t] : t \in FsPyTexts}
    /\ ScopeIdle /\ ExtractIdle /\ EnvIdle /\ PackIdle /\ CacheIdle /\ AuxIdle /\ IoIdle

\* extractMultipleContexts(locs, depth, maxLines), the file being readable or not
ExtractMultiple ==
    /\ batch = Pending
    /\ \E locs \in LocLists(file), depth \in Depths, maxLines \in 1..MaxCtxLines,
          readable \in BOOLEAN :
         batch' = [locs |-> locs, depth |-> depth,
                   out |-> extractMultipleContexts(
                               locs, depth, maxLines,
                               IF readable THEN ViewOf(file.content)
                               ELSE UnreadableView)]
    /\ UNCHANGED <<ioVars, scopeVars, extractVars, envVars, packVars, cacheVars, search, multi, cli>>

NextBatch == ExtractMultiple

SpecBatch == InitBatch /\ [][NextBatch]_vars

C16_ConcatenationInFileOrder ==
    (pc = "done" /\ result # Threw) =>
        /\ \A i, j \in 1..Len(files) : i < j => DiscoveryRank(files[i]) < DiscoveryRank(files[j])
        /\ \A k \in 1..Len(files) : files[k] \in DOMAIN found
        /\ LocationsOf(result.references) = FoundIn(files)

\* Both files contributed, the first discovered file two references
C16_Witness ==
    /\ pc = "done" /\ result # Threw
    /\ Len(files) = 2
    /\ Len(found[files[1]]) = 2 /\ Len(found[files[2]]) = 1
    /\ result.count = 3

\* The header lines above line ln that are indented strictly less than it
HeadersAbove(lines, ln) ==
    {h \in 1..(ln - 1) :
        /\ IsDef(lines[h]) \/ IsClass(lines[h])
        /\ Indent(lines[h]) < Indent(lines[ln])}

\* C17: in a .py file a (non-blank) line resolves to the nearest def/class header
\* above it that is indented strictly less than the line, and to null when there
\* is no such header.
C17_NearestShallowerHeader ==
    (Resolved /\ IsPy(file.path) /\ location.line <= LineCount(file.content)
     /\ ~IsBlank(SplitLines(file.content)[location.line])) =>
        LET lines == SplitLines(file.content)
            above == HeadersAbove(lines, location.line)
        IN IF above = {} THEN scope = Null
           ELSE /\ scope # Null
                /\ scope.startLine = CHOOSE h \in above : \A g \in above : g <= h

\* ------------------------------------------------------------ include patterns
\* A directory that holds a .ts file and a .txt file, both matched by the
\* include patterns the caller configured
InitInclude ==
    /\ file = Null
    /\ ScopeIdle /\ ExtractIdle /\ CacheIdle /\ AuxIdle /\ IoIdle
    /\ fs \in [{TsPath, TxtPath} -> {Present(t, 0) : t \in FsTsTexts}]
    /\ fsOps = 0
    /\ astCache = <<>> /\ contentCache = <<>> /\ pc = "idle"
    /\ options \in {[depth |-> d, maxContextLines |-> DefaultMaxContextLines] : d \in Depths}
    /\ files = <<>> /\ fileIdx = 0 /\ allLocations = <<>> /\ locIdx = 0
    /\ references = <<>> /\ result = Pending
    /\ found = <<>> /\ unparsed = {} /\ lost = FALSE /\ probe = Pending

SpecInclude == InitInclude /\ [][NextAnalyze]_vars

\* C18: a discovered file whose extension is not supported contributes no
\* reference to the result of analyze, and analyze does not fail because of it.
C18_UnsupportedContributesNothing ==
    (pc = "done" /\ ~lost) =>
        /\ result # Threw
        /\ \A i \in 1..Len(result.references) :
               result.references[i].location.filePath \in SUPPORTED_EXTENSIONS

\* ------------------------------------------------------------ MultiFunctionAnalyzer
\* this.packer.analyze(functionName) run to completion on a directory nobody
\* modifies meanwhile
RECURSIVE LocationsIn(_, _, _)
LocationsIn(disk, paths, functionName) ==
    IF paths = <<>> THEN <<>>
    ELSE findReferencesInFile(Head(paths), ViewOf(disk[Head(paths)].content), functionName)
         \o LocationsIn(disk, Tail(paths), functionName)
analyze(disk, opts, functionName) ==
    LET locs == LocationsIn(disk, findFilesSync(disk), functionName)
    IN AnalysisResult(functionName,
                      [i \in 1..Len(locs) |->
                          extractReferenceContext(locs[i], opts.depth, opts.maxContextLines,
                                                  ViewOf(disk[locs[i].filePath].content))])

NameLists == UNION {[1..k -> {TargetName, OtherName}] : k \in 0..MaxNames}

InitMulti ==
    /\ file = Null
    /\ ScopeIdle /\ ExtractIdle /\ CacheIdle /\ AuxIdle /\ IoIdle
    /\ fs \in {f \in [{TsPath, PyPath} -> {Present(t, 0) : t \in FsTsTexts \cup FsPyTexts}] :
                  \A path \in DOMAIN f : f[path].content \in TextsFor(path)}
    /\ fsOps = 0
    /\ astCache = <<>> /\ contentCache = <<>> /\ pc = "idle"
    /\ options \in {[depth |-> d, maxContextLines |-> DefaultMaxContextLines] : d \in Depths}
    /\ files = <<>> /\ fileIdx = 0 /\ allLocations = <<>> /\ locIdx = 0
    /\ references = <<>> /\ result = Pending
    /\ found = <<>> /\ unparsed = {} /\ lost = FALSE /\ probe = Pending

\* MultiFunctionAnalyzer.analyze(functionNames) is entered
MultiStart ==
    /\ multi = Pending
    /\ \E names \in NameLists :
         multi' = [functionNames |-> names, idx |-> 1, results |-> <<>>,
                   totalReferences |-> 0, filesWithMatchesSet |-> {}, returned |-> FALSE]
    /\ UNCHANGED <<ioVars, scopeVars, extractVars, envVars, packVars, cacheVars, search, batch, cli>>

\* One iteration of `for (const functionName of functionNames)`
MultiStep ==
    /\ multi # Pending
    /\ ~multi.returned
    /\ multi.idx <= Len(multi.functionNames)
    /\ LET functionName == multi.functionNames[multi.idx]
           res == analyze(fs, options, functionName)
       IN multi' = [multi EXCEPT
                      !.idx = @ + 1,
                      !.results = (functionName :> res) @@ @,
                      !.totalReferences = @ + Len(res.references),
                      !.filesWithMatchesSet =
                          @ \cup {res.references[i].location.filePath :
                                     i \in 1..Len(res.references)}]
    /\ UNCHANGED <<ioVars, scopeVars, extractVars, envVars, packVars, cacheVars, search, batch, cli>>

\* The MultiAnalysisResult is returned
MultiFinish ==
    /\ multi # Pending
    /\ ~multi.returned
    /\ multi.idx > Len(multi.functionNames)
    /\ multi' = [functions |-> multi.functionNames,
                 results |-> multi.results,
                 totalReferences |-> multi.totalReferences,
                 summary |-> [functionCount |-> Len(multi.functionNames),
                              filesScanned |-> Len(findFilesSync(fs)),
                              filesWithMatches |-> Cardinality(multi.filesWithMatchesSet),
                              totalMatches |-> multi.totalReferences],
                 returned |-> TRUE]
    /\ UNCHANGED <<ioVars, scopeVars, extractVars, envVars, packVars, cacheVars, search, batch, cli>>

NextMulti == MultiStart \/ MultiStep \/ MultiFinish

SpecMulti == InitMulti /\ [][NextMulti]_vars

RECURSIVE SumOfReferences(_, _)
SumOfReferences(results, names) ==
    IF names = {} THEN 0
    ELSE LET n == CHOOSE x \in names : TRUE
         IN Len(results[n].references) + SumOfReferences(results, names \ {n})

\* C19: totalReferences and summary.totalMatches of the result equal the sum of
\* references.length over the entries of its results map.
C19_TotalIsSumOverResults ==
    (multi # Pending /\ multi.returned) =>
        /\ multi.totalReferences = SumOfReferences(multi.results, DOMAIN multi.results)
        /\ multi.summary.totalMatches = multi.totalReferences

\* ------------------------------------------------------------ command line
\* clearAllCaches()
clearAllCaches(entries) == <<>>

\* main() has parsed the arguments: with --no-cache it calls clearAllCaches()
\* once, before the analysis starts
CliMain ==
    /\ cli = Pending
    /\ pc = "idle"
    /\ \E noCache \in BOOLEAN :
         /\ cli' = [noCache |-> noCache]
         /\ astCache' = IF noCache THEN clearAllCaches(astCache) ELSE astCache
         /\ contentCache' = IF noCache THEN clearAllCaches(contentCache) ELSE contentCache
    /\ UNCHANGED <<ioVars, scopeVars, extractVars, envVars, cacheVars, search, batch, multi,
                   options, pc, files, fileIdx, allLocations, locIdx, references, result,
                   found, unparsed, lost, probe>>

NextCli == CliMain \/ NextAnalyze

SpecCli == InitAnalyze /\ [][NextCli]_vars

\* parseFile / getFileContent would return the cached value
AstServedFromCache(path) == FileCacheGet(astCache, fs, path).hit
ContentServedFromCache(path) ==
    LET got == FileCacheGet(contentCache, fs, path)
    IN got.hit /\ got.data # <<>>

\* The step analyze is about to take reads through a cache hit
NextReadServedFromCache ==
    \/ /\ pc = "find"
       /\ ~IsPy(files[fileIdx]) /\ AstServedFromCache(files[fileIdx])
    \/ /\ pc = "extract" /\ locIdx <= Len(allLocations)
       /\ LET path == allLocations[locIdx].filePath
          IN \/ ContentServedFromCache(path)
             \/ options.depth = "logic" /\ ~IsPy(path) /\ AstServedFromCache(path)

\* C20: once --no-cache has been processed, no parse and no content read of the
\* run is served from the AST cache or the content cache.
C20_NoCacheMeansNoHit ==
    [][(cli # Pending /\ cli.noCache /\ (FindStep \/ ExtractStep))
          => ~NextReadServedFromCache]_vars

\* ------------------------------------------------------------ config loader
\* A JSON value is a kind with its text; an absent property is the kind "undefined".
JsonValue(kind, v) == [kind |-> kind, v |-> v]
Undefined == JsonValue("undefined", "")
Str(v) == JsonValue("string", v)
Arr(v) == JsonValue("array", v)
Bool(v) == JsonValue("boolean", v)
Obj(v) == JsonValue("object", v)

\* JavaScript truthiness of a JSON value
Truthy(x) ==
    /\ x.kind # "undefined"
    /\ ~(x.kind = "string" /\ x.v = "")
    /\ ~(x.kind = "boolean" /\ x.v = "false")

VALID_DEPTHS == {"snippet", "logic", "module"}
VALID_FORMATS == {"markdown", "text", "json", "csv", "txt", "xml"}

\* Array.prototype.includes on a list of strings
Includes(valid, x) == x.kind = "string" /\ x.v \in valid

\* the fields of ContextPackerConfig the loader treats specially, autoCopy standing
\* for the ones it copies as they are
DEFAULT_CONFIG ==
    [defaultDepth |-> Str("logic"), defaultFormat |-> Str("markdown"),
     exclude |-> Arr("**/node_modules/**"), include |-> Arr("**/*.ts"),
     autoCopy |-> Bool("false"), customAIServices |-> Undefined]

\* an error message: the field it names first and the value it quotes
ConfigError(field, quoted) == [field |-> field, quoted |-> quoted]

validateConfig(c) ==
    (IF Truthy(c.defaultDepth) /\ ~Includes(VALID_DEPTHS, c.defaultDepth)
     THEN {ConfigError("defaultDepth", c.defaultDepth.v)} ELSE {})
    \cup
    (IF Truthy(c.defaultFormat) /\ ~Includes(VALID_FORMATS, c.defaultFormat)
     THEN {ConfigError("defaultFormat", c.defaultFormat.v)} ELSE {})
    \cup
    (IF Truthy(c.include) /\ c.include.kind # "array"
     THEN {ConfigError("include", "")} ELSE {})
    \cup
    (IF Truthy(c.exclude) /\ c.exclude.kind # "array"
     THEN {ConfigError("exclude", "")} ELSE {})

\* e.includes(name): the message holds the field's name, or quotes a value that does
ErrorIncludes(e, name) == e.field = name \/ e.quoted = name

\* { ...defaults, ...user }: an own property of user wins
Spread(defaults, user) ==
    [f \in DOMAIN defaults |-> IF user[f].kind # "undefined" THEN user[f] ELSE defaults[f]]

mergeConfig(defaults, user) ==
    [Spread(defaults, user) EXCEPT
        !.include = IF Truthy(user.include) THEN user.include ELSE defaults.include,
        !.exclude = IF Truthy(user.exclude) THEN user.exclude ELSE defaults.exclude,
        !.customAIServices = Obj("")]

\* cleanConfig of loadConfig: the two deletes
CleanConfig(userConfig, errors) ==
    [userConfig EXCEPT
        !.defaultDepth = IF \E e \in errors : ErrorIncludes(e, "defaultDepth")
                         THEN Undefined ELSE @,
        !.defaultFormat = IF \E e \in errors : ErrorIncludes(e, "defaultFormat")
                          THEN Undefined ELSE @]

\* A candidate config file: absent, or holding text that is not JSON ("invalid"), the
\* JSON text null ("null", on which validateConfig throws a TypeError), or a JSON
\* object ("object", its properties in `value`).
EmptyObject == [f \in DOMAIN DEFAULT_CONFIG |-> Undefined]
ConfigFile(exists, json, value) == [exists |-> exists, json |-> json, value |-> value]
NoConfigFile == ConfigFile(FALSE, "invalid", EmptyObject)

\* the `for` loop of loadConfig from configPaths[i] on: both catch branches only log,
\* so the loop goes on to the next candidate
RECURSIVE LoadFrom(_, _)
LoadFrom(dir, i) ==
    IF i > Len(dir) THEN DEFAULT_CONFIG
    ELSE IF ~dir[i].exists THEN LoadFrom(dir, i + 1)
    ELSE IF dir[i].json # "object" THEN LoadFrom(dir, i + 1)
    ELSE LET userConfig == dir[i].value
             errors == validateConfig(userConfig)
         IN  IF errors # {}
             THEN mergeConfig(DEFAULT_CONFIG, CleanConfig(userConfig, errors))
             ELSE mergeConfig(DEFAULT_CONFIG, userConfig)

loadConfig(dir) == LoadFrom(dir, 1)

\* the JSON objects .contextpackerrc.json is given
UserConfigs ==
    [defaultDepth : {Undefined, Str("snippet"), Str("deep"), Str("")},
     defaultFormat : {Undefined, Str("json"), Str("yaml"), Str("defaultDepth")},
     include : {Undefined, Arr("src/**"), Str("src/**")},
     exclude : {Undefined, Arr("tmp/**"), Str("tmp/**")},
     autoCopy : {Undefined, Bool("true")},
     customAIServices : {Undefined}]

\* what the two later candidates hold
OtherConfigFiles ==
    {NoConfigFile, ConfigFile(TRUE, "invalid", EmptyObject),
     ConfigFile(TRUE, "null", EmptyObject),
     ConfigFile(TRUE, "object", [EmptyObject EXCEPT !.autoCopy = Bool("true")])}

RcFiles ==
    OtherConfigFiles \cup {ConfigFile(TRUE, "object", c) : c \in UserConfigs}

\* the directory: .contextpackerrc.json, .contextpacker.config.json,
\* contextpacker.config.json
ConfigDirs == {<<a, b, c>> : a \in RcFiles, b \in OtherConfigFiles, c \in OtherConfigFiles}

InitConfig ==
    /\ file = Null
    /\ config \in {[dir |-> d, done |-> FALSE, loaded |-> DEFAULT_CONFIG] : d \in ConfigDirs}
    /\ ScopeIdle /\ ExtractIdle /\ EnvIdle /\ PackIdle /\ CacheIdle /\ AuxIdle
    /\ WatchIdle /\ InflightIdle /\ TuiIdle /\ DiffIdle

LoadConfig ==
    /\ ~config.done
    /\ config' = [config EXCEPT !.done = TRUE, !.loaded = loadConfig(config.dir)]
    /\ UNCHANGED <<scopeVars, extractVars, envVars, packVars, cacheVars, auxVars,
                   watch, inflight, tui, diff>>

NextConfig == LoadConfig
SpecConfig == InitConfig /\ [][NextConfig]_vars

\* C21: whenever .contextpackerrc.json exists and is not valid JSON, loadConfig returns
\* DEFAULT_CONFIG, whatever the other two candidate files hold
C21_InvalidRcGivesDefault ==
    (config.done /\ config.dir[1].exists /\ config.dir[1].json = "invalid")
        => config.loaded = DEFAULT_CONFIG


\* ------------------------------------------------------------ watcher
\* Time is a clock of whole ticks; a timer runs its callback at the tick it is due.
\* _debounceTimer is the id setTimeout returned (0 for null); `timers` are the timeouts
\* set and neither run nor cleared; `log` is the history of calls and callbacks.
WatcherIsSupportedFile(filename) == filename \in SUPPORTED_EXTENSIONS

NewWatcher ==
    [running |-> FALSE, watcher |-> "null", debounceTimer |-> 0, timers |-> {},
     nextId |-> 1, now |-> 0, log |-> <<>>, stopped |-> FALSE]

clearTimeout(timers, id) == {t \in timers : t.id # id}

\* start(); fs.watch throws when rootOk is false
WatcherStart(w, rootOk) ==
    IF w.running THEN w
    ELSE [w EXCEPT !.running = TRUE,
                   !.watcher = IF rootOk THEN "open" ELSE @]

WatcherStartThrows(w, rootOk) == ~w.running /\ ~rootOk

WatcherStopMutKeepTimer(w) ==
    [w EXCEPT !.watcher = "null", !.running = FALSE]

\* stop()
WatcherStop(w) ==
    [w EXCEPT !.watcher = "null",
              !.timers = IF w.debounceTimer # 0 THEN clearTimeout(@, w.debounceTimer) ELSE @,
              !.debounceTimer = 0,
              !.running = FALSE]

WatcherOnEventMutNoClear(w, filename) ==
    IF filename = NoName \/ ~WatcherIsSupportedFile(filename) THEN w
    ELSE [w EXCEPT !.timers = @ \cup {[id |-> w.nextId, filename |-> filename,
                                       due |-> w.now + DebounceMs]},
                   !.debounceTimer = w.nextId,
                   !.nextId = @ + 1]

\* the listener given to fs.watch
WatcherOnEvent(w, filename) ==
    IF filename = NoName \/ ~WatcherIsSupportedFile(filename) THEN w
    ELSE [w EXCEPT !.timers = (IF w.debounceTimer # 0
                               THEN clearTimeout(@, w.debounceTimer) ELSE @)
                              \cup {[id |-> w.nextId, filename |-> filename,
                                     due |-> w.now + DebounceMs]},
                   !.debounceTimer = w.nextId,
                   !.nextId = @ + 1]

LogEntry(kind, filename, at, threw) ==
    [kind |-> kind, filename |-> filename, at |-> at, threw |-> threw]

Logged(w, kind, filename, threw) ==
    [w EXCEPT !.log = Append(@, LogEntry(kind, filename, w.now, threw))]

WatchFrame ==
    UNCHANGED <<scopeVars, extractVars, envVars, packVars, cacheVars, auxVars,
                config, inflight, tui, diff>>

InitWatch ==
    /\ file = Null
    /\ watch = NewWatcher
    /\ ScopeIdle /\ ExtractIdle /\ EnvIdle /\ PackIdle /\ CacheIdle /\ AuxIdle
    /\ ConfigIdle /\ InflightIdle /\ TuiIdle /\ DiffIdle

Start ==
    /\ Len(watch.log) < MaxWatchLog
    /\ \E rootOk \in BOOLEAN :
         watch' = [Logged(WatcherStart(watch, rootOk), "start", NoName,
                          WatcherStartThrows(watch, rootOk))
                   EXCEPT !.stopped = FALSE]
    /\ WatchFrame

Stop ==
    /\ Len(watch.log) < MaxWatchLog
    /\ watch' = [Logged(WatcherStop(watch), "stop", NoName, FALSE) EXCEPT !.stopped = TRUE]
    /\ WatchFrame

\* the file system reports a change under rootDir to the open FSWatcher
Change ==
    /\ Len(watch.log) < MaxWatchLog
    /\ watch.watcher = "open"
    /\ \E filename \in {TsPath, PyPath, TxtPath, NoName} :
         watch' = IF filename = NoName \/ ~WatcherIsSupportedFile(filename)
                  THEN Logged(WatcherOnEvent(watch, filename), "ignored", filename, FALSE)
                  ELSE Logged(WatcherOnEvent(watch, filename), "change", filename, FALSE)
    /\ WatchFrame

\* a timeout that is due runs: this.options.onChange(filename)
Fire ==
    /\ \E t \in watch.timers :
         /\ t.due <= watch.now
         /\ watch' = [Logged(watch, "onChange", t.filename, FALSE)
                      EXCEPT !.timers = @ \ {t}]
    /\ WatchFrame

Tick ==
    /\ watch.now < MaxTime
    /\ \A t \in watch.timers : t.due > watch.now
    /\ watch' = [watch EXCEPT !.now = @ + 1]
    /\ WatchFrame

NextWatch == Start \/ Stop \/ Change \/ Fire \/ Tick
SpecWatch == InitWatch /\ [][NextWatch]_vars

OnChangeCalls(w) == SelectSeq(w.log, LAMBDA e : e.kind = "onChange")
StopReturns ==
    /\ Len(watch'.log) = Len(watch.log) + 1
    /\ watch'.log[Len(watch'.log)].kind = "stop"

\* C22: from the return of stop() to the next start(), onChange is not called, no
\* timeout is pending and isRunning is false; stop() on a watcher that is not running
\* changes nothing and does not throw
C22_StopSilences ==
    [][/\ watch.stopped => (~watch.running /\ watch.timers = {} /\ watch.watcher = "null")
       /\ (watch.stopped /\ watch'.stopped) => OnChangeCalls(watch') = OnChangeCalls(watch)
       /\ (~watch.running /\ StopReturns) =>
             /\ [watch' EXCEPT !.log = watch.log, !.stopped = watch.stopped] = watch
             /\ ~watch'.log[Len(watch'.log)].threw]_vars

\* a change was followed by stop() before its timeout was due, and the due time passed
C22_Witness ==
    /\ watch.stopped
    /\ \E i \in 1..(Len(watch.log) - 1) :
         /\ watch.log[i].kind = "change"
         /\ watch.log[i + 1].kind = "stop"
         /\ watch.log[i + 1].at < watch.log[i].at + DebounceMs
         /\ watch.now >= watch.log[i].at + DebounceMs

\* the entries that start, end or cut short a debounce window
Relevant(e) == e.kind \in {"change", "onChange", "stop"}
\* the nearest relevant entry before log[j] (0 if none) and after log[i] (0 if none)
PrevRelevant(log, j) ==
    LET before == {i \in 1..(j - 1) : Relevant(log[i])}
    IN  IF before = {} THEN 0 ELSE CHOOSE i \in before : \A k \in before : k <= i
NextRelevant(log, i) ==
    LET after == {j \in (i + 1)..Len(log) : Relevant(log[j])}
    IN  IF after = {} THEN 0 ELSE CHOOSE j \in after : \A k \in after : j <= k

\* C23: while the watcher runs, every onChange call is the one call of a burst: it
\* comes debounceMs after the supported change right before it and carries that
\* change's filename; a change followed by another in less than debounceMs is not
\* reported, and the last change of a burst is reported once debounceMs have passed
C23_OneCallPerBurst ==
    LET log == watch.log
    IN  /\ \A j \in 1..Len(log) :
              log[j].kind = "onChange" =>
                 LET i == PrevRelevant(log, j)
                 IN  /\ i # 0
                     /\ log[i].kind = "change"
                     /\ log[i].filename = log[j].filename
                     /\ log[j].at = log[i].at + DebounceMs
        /\ \A i \in 1..Len(log) :
              log[i].kind = "change" =>
                 LET j == NextRelevant(log, i)
                 IN  IF j = 0 THEN watch.now <= log[i].at + DebounceMs
                     ELSE log[j].at <= log[i].at + DebounceMs

\* a burst of two changes to different files, reported once with the second file
C23_Witness ==
    \E i \in 1..(Len(watch.log) - 2) :
        /\ watch.log[i].kind = "change" /\ watch.log[i].filename = TsPath
        /\ watch.log[i + 1].kind = "change" /\ watch.log[i + 1].filename = PyPath
        /\ watch.log[i + 1].at = watch.log[i].at + 1
        /\ watch.log[i + 2].kind = "onChange" /\ watch.log[i + 2].filename = PyPath
        /\ Len(OnChangeCalls(watch)) = 1

\* C24: after any start() and stop() calls, also a start() in which fs.watch throws,
\* isRunning is true exactly when the watcher holds an open FSWatcher
C24_RunningIffWatching ==
    watch.running <=> watch.watcher = "open"

\* ------------------------------------------------------------ read, then cache.set
\* parseFile and getFileContent step by step, so that another process can change the
\* file between their readFileSync and the statSync of cache.set.  `inflight` holds
\* what was read and computed ("ast": parseFile, "content": getFileContent).
ToctouPaths == {TsPath, TxtPath}

ToctouFrame ==
    UNCHANGED <<scopeVars, extractVars, cacheVars, auxVars, config, watch, tui, diff,
                options, pc, files, fileIdx, allLocations, locIdx, references, result,
                found, unparsed, lost, probe>>

InitToctou ==
    /\ file = Null
    /\ ScopeIdle /\ ExtractIdle /\ PackIdle /\ CacheIdle /\ AuxIdle /\ IoIdle
    /\ fs \in [ToctouPaths -> {Present(t, 0) : t \in FsTsTexts} \cup {Absent}]
    /\ fsOps = 0

\* parseFile up to its parse: the cache lookup, the read and the parse
ParseFileRead ==
    /\ inflight = Null
    /\ \E path \in ToctouPaths :
         LET got == FileCacheGet(astCache, fs, path)
             content == readFileSync(fs, path)
         IN /\ astCache' = got.cache
            /\ inflight' = IF got.hit \/ ~content.ok \/ parse(content.text) = ParseFailure
                           THEN Null
                           ELSE [path |-> path, kind |-> "ast", data |-> parse(content.text)]
    /\ UNCHANGED <<contentCache, envVars>>
    /\ ToctouFrame

\* getFileContent up to its read
GetFileContentRead ==
    /\ inflight = Null
    /\ \E path \in ToctouPaths :
         LET got == FileCacheGet(contentCache, fs, path)
             content == readFileSync(fs, path)
         IN /\ contentCache' = got.cache
            /\ inflight' = IF (got.hit /\ got.data # <<>>) \/ ~content.ok
                           THEN Null
                           ELSE [path |-> path, kind |-> "content", data |-> content.text]
    /\ UNCHANGED <<astCache, envVars>>
    /\ ToctouFrame

\* the rest of either: getASTCache().set(filePath, ast) / getContentCache().set(...)
CacheSetAfterRead ==
    /\ inflight # Null
    /\ IF inflight.kind = "ast"
       THEN /\ astCache' = FileCacheSet(astCache, fs, inflight.path, inflight.data,
                                        DefaultMaxEntries)
            /\ UNCHANGED contentCache
       ELSE /\ contentCache' = FileCacheSet(contentCache, fs, inflight.path, inflight.data,
                                            DefaultMaxEntries)
            /\ UNCHANGED astCache
    /\ inflight' = Null
    /\ UNCHANGED envVars
    /\ ToctouFrame

\* another process rewrites a file; the modification time moves on
RewriteFile ==
    /\ fsOps < MaxFsOps
    /\ \E path \in ToctouPaths : \E text \in FsTsTexts :
         /\ text # fs[path].content \/ ~fs[path].exists
         /\ fs' = [fs EXCEPT ![path] = Present(text, fsOps + 1)]
    /\ fsOps' = fsOps + 1
    /\ UNCHANGED <<astCache, contentCache, inflight>>
    /\ ToctouFrame

NextToctou == ParseFileRead \/ GetFileContentRead \/ CacheSetAfterRead \/ RewriteFile
SpecToctou == InitToctou /\ [][NextToctou]_vars

\* the entry of `path` would be served by get(): the file's mtime and size are the
\* recorded ones
Valid(entries, path) ==
    /\ EntryIndex(entries, path) # 0
    /\ statSync(fs, path).ok
    /\ statSync(fs, path).mtime = entries[EntryIndex(entries, path)].mtime
    /\ statSync(fs, path).size = entries[EntryIndex(entries, path)].size

\* C27: an entry's recorded mtime and size are those of the file version its data was
\* computed from, also when the file is rewritten between the read and the stat of
\* set(): an entry that get() would serve holds the data of the version on disk
C27_HitIsCurrentVersion ==
    \A path \in ToctouPaths :
        /\ Valid(contentCache, path)
              => contentCache[EntryIndex(contentCache, path)].data = fs[path].content
        /\ Valid(astCache, path)
              => astCache[EntryIndex(astCache, path)].data = parse(fs[path].content)

\* the fields validateConfig checks, and the ones it rejects in c
CheckedFields == {"defaultDepth", "defaultFormat", "include", "exclude"}
Rejected(c) == {e.field : e \in validateConfig(c)}

\* C28: when the config file read holds a JSON object, the configuration loadConfig
\* returns has no validateConfig errors: each rejected field has its default value
\* and each other field the file gives has the file's value
C28_LoadedConfigIsValid ==
    (config.done /\ config.dir[1].exists /\ config.dir[1].json = "object")
        => LET user == config.dir[1].value
           IN  /\ validateConfig(config.loaded) = {}
               /\ \A f \in CheckedFields \cup {"autoCopy"} :
                     IF f \in Rejected(user) THEN config.loaded[f] = DEFAULT_CONFIG[f]
                     ELSE Truthy(user[f]) => config.loaded[f] = user[f]

\* ------------------------------------------------------------ interactive mode
\* A line of input is a sequence of tokens: a blank, a comma, or a word.
TuiTokens == {" ", ",", "quit", "exit", "q", "help", "stats", "f"}
TuiInputs == UNION {[1..k -> TuiTokens] : k \in 0..MaxInputLen}

\* String.prototype.trim
RECURSIVE TrimStart(_)
TrimStart(input) ==
    IF input # <<>> /\ Head(input) = " " THEN TrimStart(Tail(input)) ELSE input
RECURSIVE TrimEnd(_)
TrimEnd(input) ==
    IF input # <<>> /\ input[Len(input)] = " "
    THEN TrimEnd(SubSeq(input, 1, Len(input) - 1)) ELSE input
Trim(input) == TrimEnd(TrimStart(input))

ParsedCommand(type, value) == [type |-> type, value |-> value]

parseInteractiveCommand(input) ==
    LET trimmed == Trim(input)
    IN  IF trimmed = <<>> THEN ParsedCommand("empty", <<>>)
        ELSE IF trimmed \in {<<"quit">>, <<"exit">>, <<"q">>} THEN ParsedCommand("quit", <<>>)
        ELSE IF trimmed = <<"help">> THEN ParsedCommand("help", <<>>)
        ELSE IF trimmed = <<"stats">> THEN ParsedCommand("stats", <<>>)
        ELSE IF \E i \in 1..Len(trimmed) : trimmed[i] = ","
        THEN ParsedCommand("multi", trimmed)
        ELSE ParsedCommand("analyze", trimmed)

\* input.split(',')
RECURSIVE SplitCommas(_, _)
SplitCommas(input, current) ==
    IF input = <<>> THEN <<current>>
    ELSE IF Head(input) = "," THEN <<current>> \o SplitCommas(Tail(input), <<>>)
    ELSE SplitCommas(Tail(input), Append(current, Head(input)))

\* MultiFunctionAnalyzer.parseFunctionList
parseFunctionList(input) ==
    LET parts == SplitCommas(input, <<>>)
        names == [i \in 1..Len(parts) |-> Trim(parts[i])]
    IN  SelectSeq(names, LAMBDA name : Len(name) > 0)

\* The session after startInteractiveMode has returned: the readline interface is
\* open and the first question is asked.  state: "asking" (a question is pending),
\* "analyzing" (the callback is inside packer.analyze), "closed" (rl.close() was
\* called), "threw" (the callback ended with an exception).  prompts and answered
\* count the questions asked and the lines received; remaining counts the
\* packer.analyze calls the command still has to make.
NewSession ==
    [open |-> TRUE, state |-> "asking", prompts |-> 1, answered |-> 0,
     command |-> "none", remaining |-> 0]

InitTui ==
    /\ file = Null
    /\ ScopeIdle /\ ExtractIdle /\ CacheIdle /\ AuxIdle
    /\ ConfigIdle /\ WatchIdle /\ InflightIdle /\ DiffIdle
    /\ tui = NewSession
    /\ fs \in {f \in [{TsPath, PyPath} -> {Present(t, 0) : t \in FsTsTexts \cup FsPyTexts}] :
                  \A path \in DOMAIN f : f[path].content \in TextsFor(path)}
    /\ fsOps = 0
    /\ astCache = <<>> /\ contentCache = <<>> /\ pc = "idle"
    /\ options \in {[depth |-> d, maxContextLines |-> DefaultMaxContextLines] : d \in Depths}
    /\ files = <<>> /\ fileIdx = 0 /\ allLocations = <<>> /\ locIdx = 0
    /\ references = <<>> /\ result = Pending
    /\ found = <<>> /\ unparsed = {} /\ lost = FALSE /\ probe = Pending

\* prompt(): rl.question is called again
Prompted(t) == [t EXCEPT !.state = "asking", !.prompts = @ + 1]

\* the callback of rl.question receives a line, up to its first packer.analyze call
\* (if the command makes one) or to its return
TuiAnswer ==
    /\ tui.state = "asking"
    /\ tui.answered < MaxPrompts
    /\ \E input \in TuiInputs :
         LET command == parseInteractiveCommand(input)
             calls == IF command.type = "analyze" THEN 1
                      ELSE IF command.type = "multi"
                      THEN Len(parseFunctionList(command.value))
                      ELSE 0
             heard == [tui EXCEPT !.answered = @ + 1, !.command = command.type]
         IN  IF calls > 0
             THEN /\ AnalyzeEnter
                  /\ tui' = [heard EXCEPT !.state = "analyzing", !.remaining = calls - 1]
             ELSE /\ tui' = IF command.type = "quit"
                            THEN [heard EXCEPT !.state = "closed", !.open = FALSE]
                            ELSE Prompted(heard)
                  /\ UNCHANGED packVars
    /\ UNCHANGED <<scopeVars, extractVars, envVars, cacheVars, auxVars,
                   config, watch, inflight, diff>>

\* packer.analyze has returned or thrown inside the callback: the exception leaves
\* the callback (nothing catches it); otherwise the next analyze of a multi command
\* is entered, or the output is written and prompt() is called
TuiResume ==
    /\ tui.state = "analyzing"
    /\ pc = "done"
    /\ IF result = Threw
       THEN /\ tui' = [tui EXCEPT !.state = "threw"]
            /\ UNCHANGED packVars
       ELSE IF tui.remaining > 0
       THEN /\ AnalyzeEnter
            /\ tui' = [tui EXCEPT !.remaining = @ - 1]
       ELSE /\ tui' = Prompted(tui)
            /\ UNCHANGED packVars
    /\ UNCHANGED <<scopeVars, extractVars, envVars, cacheVars, auxVars,
                   config, watch, inflight, diff>>

NextTui ==
    TuiAnswer \/ TuiResume \/ FindStep \/ ExtractStep \/ AnalyzeFinish
    \/ WriteFile \/ DeleteFile
SpecTui == InitTui /\ [][NextTui]_vars

\* C29: the session is always either asking (one more question than lines received),
\* working on an analyze or multi command (after which it asks again, also when the
\* analysis fails), or closed by a quit command, with no question asked after it
C29_PromptsUntilQuit ==
    /\ tui.state \in {"asking", "analyzing", "closed"}
    /\ tui.state = "asking" => (tui.open /\ tui.prompts = tui.answered + 1)
    /\ tui.state = "analyzing" => (tui.open /\ tui.command \in {"analyze", "multi"})
    /\ tui.state = "closed" =>
          (~tui.open /\ tui.command = "quit" /\ tui.prompts = tui.answered)
    /\ (tui.command = "quit" /\ tui.prompts = tui.answered) => tui.state = "closed"

\* ------------------------------------------------------------ snapshot diff
\* filePath + ':' + line
referenceKey(ref) == <<ref.location.filePath, ref.location.line>>

Keys(refList) == {referenceKey(refList[i]) : i \in 1..Len(refList)}

diffAnalysis(previous, current) ==
    LET previousKeys == Keys(previous.references)
        currentKeys == Keys(current.references)
        added == SelectSeq(current.references, LAMBDA ref : referenceKey(ref) \notin previousKeys)
        removed == SelectSeq(previous.references, LAMBDA ref : referenceKey(ref) \notin currentKeys)
        unchanged == SelectSeq(current.references, LAMBDA ref : referenceKey(ref) \in previousKeys)
    IN  [functionName |-> current.functionName,
         added |-> added, removed |-> removed, unchanged |-> unchanged,
         summary |-> [added |-> Len(added), removed |-> Len(removed),
                      unchanged |-> Len(unchanged)]]

\* the references of a result: distinct call sites, several of them possibly on one line
DiffLocations ==
    [filePath : {TsPath, PyPath}, line : 1..2, column : 0..1]
DiffReferences == {[location |-> l] : l \in DiffLocations}
DiffReferenceLists ==
    {refList \in UNION {[1..k -> DiffReferences] : k \in 0..MaxDiffRefs} :
        \A i, j \in 1..Len(refList) : i # j => refList[i] # refList[j]}
DiffResults == {AnalysisResult(TargetName, refList) : refList \in DiffReferenceLists}

NoDiff ==
    [functionName |-> TargetName, added |-> <<>>, removed |-> <<>>, unchanged |-> <<>>,
     summary |-> [added |-> 0, removed |-> 0, unchanged |-> 0]]

InitDiff ==
    /\ file = Null
    /\ ScopeIdle /\ ExtractIdle /\ EnvIdle /\ PackIdle /\ CacheIdle /\ AuxIdle
    /\ ConfigIdle /\ WatchIdle /\ InflightIdle /\ TuiIdle
    /\ diff \in {[previous |-> p, current |-> c, done |-> FALSE, out |-> NoDiff] :
                    p \in DiffResults, c \in DiffResults}

DiffAnalysis ==
    /\ ~diff.done
    /\ diff' = [diff EXCEPT !.done = TRUE, !.out = diffAnalysis(diff.previous, diff.current)]
    /\ UNCHANGED <<scopeVars, extractVars, envVars, packVars, cacheVars, auxVars,
                   config, watch, inflight, tui>>

NextDiff == DiffAnalysis
SpecDiff == InitDiff /\ [][NextDiff]_vars

\* C30: every reference is classified exactly once: added + unchanged is the number of
\* current references, removed + unchanged the number of previous references, and a
\* result diffed against itself has nothing added or removed
C30_EveryReferenceClassifiedOnce ==
    diff.done =>
        /\ diff.out.summary.added + diff.out.summary.unchanged
              = Len(diff.current.references)
        /\ diff.out.summary.removed + diff.out.summary.unchanged
              = Len(diff.previous.references)
        /\ diff.previous.references = diff.current.references
              => (diff.out.summary.added = 0 /\ diff.out.summary.removed = 0)

====
